---- MODULE Spec2Model ----
(***************************************************************************)
(* The two request coordinators of the post "Asynchronous Abstractions in  *)
(* Vanilla Javascript":                                                    *)
(*   interruptibleRequestGen  - abort the running request when a new one   *)
(*                              comes in;                                  *)
(*   controlledRequestGen     - ignore new requests while one is running,  *)
(*                              in its first form (the flag is set back    *)
(*                              after the result) and in its second form   *)
(*                              (the flag is set back by allowMoreRequests).*)
(* The code blocks of the post are separate scripts (the two forms of       *)
(* controlledRequestGen declare the same names), so a behaviour runs one   *)
(* of them.                                                                *)
(* A call of an async function runs synchronously up to its first await;   *)
(* each await is a suspension point, and the settlement of the awaited     *)
(* promise together with the code up to the next await is one step.        *)
(***************************************************************************)
EXTENDS Integers, Sequences, FiniteSets, TLC

\* Bound on the number of calls made on the requesters of a script.
MaxCalls == 3

\* The requesters made by interruptibleRequestGen().
PInsts == {"get_one", "get_two"}

\* The requesters made by the first form of controlledRequestGen.
AutoGates == {"auto_a", "auto_b"}

\* The requesters made by the second form of controlledRequestGen.
ManualGates == {"manual_a", "manual_b"}

GInsts == AutoGates \cup ManualGates

\* url + paramterize(params) of a call.
Urls == {"http://my.api.server/db", "http://facebook.com", "http://google.com"}

\* The body the server sends for a url: the JSON text false, a JSON object,
\* or a page that is not JSON.
Server(url) ==
    CASE url = "http://my.api.server/db" -> "false"
      [] url = "http://facebook.com" -> "{}"
      [] OTHER -> "<html>"

\* The scripts of the post.
Examples == {"interruptible", "controlled", "controlledRelease"}

VARIABLES
    example,          \* the script that is running
    signalSupported,  \* whether fetch of this browser observes the signal of a
                      \* Request ("not fully supported by all browsers")
    currentRequest,   \* per interruptible requester: 0 (null) or the call that made the Request
    aborted,          \* per interruptible requester: controller.signal.aborted
    pcalls,           \* per interruptible requester: the calls of makeRequest, in order
    allowRequests,    \* per controlled requester: the flag
    released,         \* per controlled requester: allowMoreRequests was called since the last admitted call
    gcalls            \* per controlled requester: the calls, in order

vars == <<example, signalSupported, currentRequest, aborted, pcalls, allowRequests, released, gcalls>>

pvars == <<currentRequest, aborted, pcalls>>
gvars == <<allowRequests, released, gcalls>>

----------------------------------------------------------------------------
\* Javascript values and promise outcomes.

JsFalse == [t |-> "boolean", v |-> "false"]
JsUndefined == [t |-> "undefined", v |-> ""]
JsObject(b) == [t |-> "object", v |-> b]
JsError(name) == [t |-> "error", v |-> name]

Pending == [kind |-> "pending", value |-> JsUndefined]
Resolved(x) == [kind |-> "resolved", value |-> x]
Rejected(name) == [kind |-> "rejected", value |-> JsError(name)]

\* response.json(): whether the body parses, and the value it parses to.
IsJson(b) == b \in {"false", "{}"}
JsonParse(b) == IF b = "false" THEN JsFalse ELSE JsObject(b)

SeqSum(f, S) ==
    LET RECURSIVE Sum(_)
        Sum(T) == IF T = {} THEN 0
                  ELSE LET x == CHOOSE y \in T : TRUE
                       IN  Len(f[x]) + Sum(T \ {x})
    IN  Sum(S)

TotalCalls == SeqSum(pcalls, PInsts) + SeqSum(gcalls, GInsts)

----------------------------------------------------------------------------
\* interruptibleRequestGen

AbortShared(i) == PInsts

AbortNone(i) == {}

\* The controller lives in the closure of one requester: abort() reaches
\* the signal of that requester only.
AbortTargets(i) == {i}

\* makeRequest up to its first await: abort if a request is recorded, make
\* the Request with the signal of the closure, record it, start fetch.
makeRequest(i, url) ==
    /\ example = "interruptible"
    /\ TotalCalls < MaxCalls
    /\ LET abortNow == currentRequest[i] # 0
           k == Len(pcalls[i]) + 1
           ab == [j \in PInsts |->
                    IF abortNow /\ j \in AbortTargets(i) THEN TRUE ELSE aborted[j]]
       IN  /\ aborted' = ab
           /\ currentRequest' = [currentRequest EXCEPT ![i] = k]
           /\ pcalls' = [pcalls EXCEPT ![i] =
                Append([n \in 1..Len(pcalls[i]) |->
                          IF pcalls[i][n].pc # "done"
                          THEN [pcalls[i][n] EXCEPT !.superseded = TRUE]
                          ELSE pcalls[i][n]],
                       [pc |-> "fetch", fullUrl |-> url,
                        outcome |-> Pending, sigAtStart |-> ab[i],
                        superseded |-> FALSE])]
    /\ UNCHANGED <<example, signalSupported, gvars>>

\* fetch(currentRequest) settles: it rejects with AbortError when the signal
\* is aborted and fetch observes it, it rejects with TypeError on a network
\* failure, or it resolves with the response of the server.  A rejection leaves makeRequest
\* by the throw, so nothing after the await runs.
fetchSettled(i, k) ==
    /\ k \in 1..Len(pcalls[i])
    /\ pcalls[i][k].pc = "fetch"
    /\ \/ /\ signalSupported /\ aborted[i]
          /\ pcalls' = [pcalls EXCEPT ![i][k] =
                [@ EXCEPT !.pc = "done", !.outcome = Rejected("AbortError")]]
       \/ /\ ~(signalSupported /\ aborted[i])
          /\ pcalls' = [pcalls EXCEPT ![i][k] =
                [@ EXCEPT !.pc = "done", !.outcome = Rejected("TypeError")]]
       \/ /\ ~(signalSupported /\ aborted[i])
          /\ pcalls' = [pcalls EXCEPT ![i][k] = [@ EXCEPT !.pc = "json"]]
    /\ UNCHANGED <<example, signalSupported, currentRequest, aborted, gvars>>

\* currentRequest = null, whichever call recorded it.
ClearedRequest(cur, k) == 0

\* response.json() settles: AbortError when the signal is aborted and
\* observed, SyntaxError when the body is not JSON, else the result; then
\* currentRequest = null and the result is returned.
jsonSettled(i, k) ==
    /\ k \in 1..Len(pcalls[i])
    /\ pcalls[i][k].pc = "json"
    /\ \/ /\ signalSupported /\ aborted[i]
          /\ pcalls' = [pcalls EXCEPT ![i][k] =
                [@ EXCEPT !.pc = "done", !.outcome = Rejected("AbortError")]]
          /\ UNCHANGED currentRequest
       \/ /\ ~(signalSupported /\ aborted[i])
          /\ ~IsJson(Server(pcalls[i][k].fullUrl))
          /\ pcalls' = [pcalls EXCEPT ![i][k] =
                [@ EXCEPT !.pc = "done", !.outcome = Rejected("SyntaxError")]]
          /\ UNCHANGED currentRequest
       \/ /\ ~(signalSupported /\ aborted[i])
          /\ IsJson(Server(pcalls[i][k].fullUrl))
          /\ pcalls' = [pcalls EXCEPT ![i][k] =
                [@ EXCEPT !.pc = "done",
                          !.outcome = Resolved(JsonParse(Server(pcalls[i][k].fullUrl)))]]
          /\ currentRequest' = [currentRequest EXCEPT ![i] = ClearedRequest(@, k)]
    /\ UNCHANGED <<example, signalSupported, aborted, gvars>>

----------------------------------------------------------------------------
\* controlledRequestGen

\* A call whose fetch or response.json() has not settled yet.
InFlight(g) == \E n \in 1..Len(gcalls[g]) : gcalls[g][n].pc # "done"

AdmittedFlagKept(flag) == flag

\* allowRequests = false, on admitting a call.
AdmittedFlag(flag) == FALSE

FlagSetBack(g, flag) == TRUE

\* The flag after the result arrived: the first form sets allowRequests =
\* true before it returns the result, the second form returns the result
\* and leaves the flag to allowMoreRequests.
FlagAfterResult(g, flag) == IF g \in AutoGates THEN TRUE ELSE flag

SuppressedReopens(flag) == TRUE

\* The else branch returns false and leaves the flag as it is.
SuppressedFlag(flag) == flag

\* The body of the requester up to its first await: with the flag set, clear
\* it and start fetch; else return false.
GateCall(g, url) ==
    /\ TotalCalls < MaxCalls
    /\ IF allowRequests[g]
       THEN /\ allowRequests' = [allowRequests EXCEPT ![g] = AdmittedFlag(@)]
            /\ released' = [released EXCEPT ![g] = FALSE]
            /\ gcalls' = [gcalls EXCEPT ![g] = Append(@,
                  [pc |-> "fetch", fullUrl |-> url, started |-> TRUE,
                   outcome |-> Pending])]
       ELSE /\ gcalls' = [gcalls EXCEPT ![g] = Append(@,
                  [pc |-> "done", fullUrl |-> url, started |-> FALSE,
                   outcome |-> Resolved(JsFalse)])]
            /\ allowRequests' = [allowRequests EXCEPT ![g] = SuppressedFlag(@)]
            /\ UNCHANGED released
    /\ UNCHANGED <<example, signalSupported, pvars>>

\* The requester of the first form.
controlledRequest(g, url) ==
    /\ example = "controlled"
    /\ g \in AutoGates
    /\ GateCall(g, url)

\* The requester of the second form.
requester(g, url) ==
    /\ example = "controlledRelease"
    /\ g \in ManualGates
    /\ GateCall(g, url)

\* fetch(request) settles: TypeError on a network failure, which leaves the
\* requester by the throw, or a response.
gateFetchSettled(g, k) ==
    /\ k \in 1..Len(gcalls[g])
    /\ gcalls[g][k].pc = "fetch"
    /\ \/ gcalls' = [gcalls EXCEPT ![g][k] =
             [@ EXCEPT !.pc = "done", !.outcome = Rejected("TypeError")]]
       \/ gcalls' = [gcalls EXCEPT ![g][k] = [@ EXCEPT !.pc = "json"]]
    /\ UNCHANGED <<example, signalSupported, pvars, allowRequests, released>>

\* response.json() settles: SyntaxError when the body is not JSON, else the
\* result is returned.
gateJsonSettled(g, k) ==
    /\ k \in 1..Len(gcalls[g])
    /\ gcalls[g][k].pc = "json"
    /\ IF IsJson(Server(gcalls[g][k].fullUrl))
       THEN /\ gcalls' = [gcalls EXCEPT ![g][k] =
                  [@ EXCEPT !.pc = "done",
                            !.outcome = Resolved(JsonParse(Server(gcalls[g][k].fullUrl)))]]
            /\ allowRequests' = [allowRequests EXCEPT ![g] = FlagAfterResult(g, @)]
       ELSE /\ gcalls' = [gcalls EXCEPT ![g][k] =
                  [@ EXCEPT !.pc = "done", !.outcome = Rejected("SyntaxError")]]
            /\ UNCHANGED allowRequests
    /\ UNCHANGED <<example, signalSupported, pvars, released>>

ReleaseIgnored(flag) == flag

ReleaseToggles(flag) == ~flag

\* allowRequests = true.
ReleasedFlag(flag) == TRUE

\* allowMoreRequests of the second form.
allowMoreRequests(g) ==
    /\ example = "controlledRelease"
    /\ g \in ManualGates
    /\ allowRequests' = [allowRequests EXCEPT ![g] = ReleasedFlag(@)]
    /\ released' = [released EXCEPT ![g] = TRUE]
    /\ UNCHANGED <<example, signalSupported, pvars, gcalls>>

----------------------------------------------------------------------------
Init ==
    /\ example \in Examples
    /\ signalSupported \in (IF example = "interruptible" THEN BOOLEAN ELSE {TRUE})
    /\ currentRequest = [i \in PInsts |-> 0]
    /\ aborted = [i \in PInsts |-> FALSE]
    /\ pcalls = [i \in PInsts |-> <<>>]
    /\ allowRequests = [g \in GInsts |-> TRUE]
    /\ released = [g \in GInsts |-> FALSE]
    /\ gcalls = [g \in GInsts |-> <<>>]

Next ==
    \/ \E i \in PInsts, url \in Urls : makeRequest(i, url)
    \/ \E i \in PInsts, k \in 1..MaxCalls : fetchSettled(i, k)
    \/ \E i \in PInsts, k \in 1..MaxCalls : jsonSettled(i, k)
    \/ \E g \in AutoGates, url \in Urls : controlledRequest(g, url)
    \/ \E g \in ManualGates, url \in Urls : requester(g, url)
    \/ \E g \in GInsts, k \in 1..MaxCalls : gateFetchSettled(g, k)
    \/ \E g \in GInsts, k \in 1..MaxCalls : gateJsonSettled(g, k)
    \/ \E g \in ManualGates : allowMoreRequests(g)

Spec == Init /\ [][Next]_vars

----------------------------------------------------------------------------
\* Vocabulary of the properties.

Last(s) == s[Len(s)]

\* The outcome the code gives a cancelled call: the AbortError of the signal.
CancelledOutcome(o) == o.value = JsError("AbortError")

\* The outcomes of a unit of work that failed by itself.
Failures == {Rejected("TypeError"), Rejected("SyntaxError")}

\* The output of the unit of work of a call: the parsed response to its url.
OwnOutput(c) == Resolved(JsonParse(Server(c.fullUrl)))

\* A call the controlled requester dropped, and one it let through.
Suppressed(c) == ~c.started /\ c.pc = "done" /\ c.outcome = Resolved(JsFalse)
Admitted(c) == c.started /\ c.pc = "fetch" /\ c.outcome = Pending

\* A call was added to requester g in this step.
NewCall(g) == Len(gcalls'[g]) = Len(gcalls[g]) + 1

\* What one requester holds.
PState(i) == <<currentRequest[i], aborted[i], pcalls[i]>>
GState(g) == <<allowRequests[g], released[g], gcalls[g]>>

----------------------------------------------------------------------------
\* C1: a call of makeRequest that was still running when the next call of
\* the same requester started, and whose unit of work did not fail by
\* itself, ends cancelled and delivers no value, also when its fetch does
\* not observe the signal.
C1_SupersededIsCancelled ==
    \A i \in PInsts : \A k \in 1..Len(pcalls[i]) :
        (/\ pcalls[i][k].superseded
         /\ pcalls[i][k].pc = "done"
         /\ pcalls[i][k].outcome \notin Failures)
            => /\ CancelledOutcome(pcalls[i][k].outcome)
               /\ pcalls[i][k].outcome.kind # "resolved"

\* C2: a call that no later call superseded and whose unit of work did not
\* fail by itself resolves with its own output, also when it superseded an
\* earlier call.
C2_LatestSucceeds ==
    \A i \in PInsts : \A k \in 1..Len(pcalls[i]) :
        (/\ pcalls[i][k].pc = "done"
         /\ ~pcalls[i][k].superseded
         /\ pcalls[i][k].outcome \notin Failures)
            => pcalls[i][k].outcome = OwnOutput(pcalls[i][k])

\* C3: a call that arrives at a controlled requester while an admitted call
\* is in flight (and, in the second form, allowMoreRequests was not called
\* since that call was admitted) returns false without starting fetch, and a
\* dropped call is never started later.
C3_SuppressedWhileActive ==
    [][\A g \in GInsts :
        /\ (NewCall(g) /\ InFlight(g) /\ (g \in AutoGates \/ ~released[g]))
              => Suppressed(Last(gcalls'[g]))
        /\ \A n \in 1..Len(gcalls[g]) :
              ~gcalls[g][n].started => gcalls'[g][n] = gcalls[g][n]]_vars

\* A dropped call behind a call that is still in flight.
C3_Witness ==
    \E g \in AutoGates : \E n, m \in 1..Len(gcalls[g]) :
        /\ n < m
        /\ gcalls[g][n].pc # "done"
        /\ Suppressed(gcalls[g][m])

\* C4: in the first form, once the admitted call has completed, by success
\* or by failure, the flag is set again and the next call is admitted.
C4_ClearedAfterCompletion ==
    [][\A g \in AutoGates :
        /\ (\A n \in 1..Len(gcalls'[g]) : gcalls'[g][n].pc = "done")
              => allowRequests'[g]
        /\ (NewCall(g) /\ ~InFlight(g)) => Admitted(Last(gcalls'[g]))]_vars

\* C5: in the second form, a call that arrives after a call was admitted and
\* before allowMoreRequests is called returns false, whether or not the
\* admitted call has completed; a call that arrives after allowMoreRequests
\* is admitted.
C5_ManualRelease ==
    [][\A g \in ManualGates :
        NewCall(g) =>
          /\ ((\E n \in 1..Len(gcalls[g]) : gcalls[g][n].started) /\ ~released[g])
                => Suppressed(Last(gcalls'[g]))
          /\ released[g] => Admitted(Last(gcalls'[g]))]_vars

\* A completed call, a dropped call after it, and a call admitted after the
\* release that followed.
C5_Witness ==
    \E g \in ManualGates : \E n, m, l \in 1..Len(gcalls[g]) :
        /\ n < m /\ m < l
        /\ gcalls[g][n].started
        /\ gcalls[g][n].outcome = OwnOutput(gcalls[g][n])
        /\ Suppressed(gcalls[g][m])
        /\ gcalls[g][l].started

\* C6: when every call of a requester completed before the next one
\* started, no call is cancelled and every call whose unit of work did not
\* fail resolves with its own output.
C6_SpacedCallsSucceed ==
    \A i \in PInsts :
        (\A k \in 1..Len(pcalls[i]) : ~pcalls[i][k].superseded)
            => \A k \in 1..Len(pcalls[i]) :
                  pcalls[i][k].pc = "done"
                     => /\ ~CancelledOutcome(pcalls[i][k].outcome)
                        /\ pcalls[i][k].outcome \notin Failures
                              => pcalls[i][k].outcome = OwnOutput(pcalls[i][k])

\* C7: a step changes what at most one requester holds: a call, a
\* settlement or a release on one requester leaves the record, the signal,
\* the flag and the calls of every other requester as they were.
C7_InstancesIndependent ==
    [][Cardinality({i \in PInsts : PState(i)' # PState(i)})
         + Cardinality({g \in GInsts : GState(g)' # GState(g)}) <= 1]_vars

\* get_one has aborted its request while a request of get_two is recorded,
\* in flight and not aborted.
C7_Witness ==
    /\ aborted["get_one"]
    /\ ~aborted["get_two"]
    /\ currentRequest["get_two"] # 0
    /\ \E k \in 1..Len(pcalls["get_two"]) : pcalls["get_two"][k].pc # "done"

\* C8: the cancelled outcome of a superseded call is resolved, not raised.
C8_CancelledIsResolved ==
    \A i \in PInsts : \A k \in 1..Len(pcalls[i]) :
        (/\ pcalls[i][k].superseded
         /\ pcalls[i][k].pc = "done"
         /\ CancelledOutcome(pcalls[i][k].outcome))
            => /\ pcalls[i][k].outcome.kind = "resolved"
               /\ pcalls[i][k].outcome \notin Failures

\* C9: the outcome of a dropped call differs from the outcome of every
\* admitted call that succeeded, whatever value the server sent.
C9_SuppressedDistinct ==
    \A g \in GInsts : \A m, n \in 1..Len(gcalls[g]) :
        (/\ Suppressed(gcalls[g][m])
         /\ gcalls[g][n].started
         /\ gcalls[g][n].outcome.kind = "resolved")
            => gcalls[g][m].outcome # gcalls[g][n].outcome

\* C10: every call of makeRequest starts with a signal that is not aborted.
C10_FreshSignal ==
    \A i \in PInsts : \A k \in 1..Len(pcalls[i]) : ~pcalls[i][k].sigAtStart

----------------------------------------------------------------------------
\* C11: the completion of a call never clears the record of a newer call:
\* while the newest call of a requester is running, currentRequest names it
\* (so the next call aborts it).
C11_ActiveRecordKept ==
    \A i \in PInsts :
        (Len(pcalls[i]) > 0 /\ Last(pcalls[i]).pc # "done")
            => currentRequest[i] = Len(pcalls[i])

\* C12: once the recorded call has completed, by success or by failure, and
\* no call is running, currentRequest is null, and a call that arrives then
\* does not abort the signal.
C12_ClearedWhenIdle ==
    [][\A i \in PInsts :
        /\ (\A k \in 1..Len(pcalls'[i]) : pcalls'[i][k].pc = "done")
              => currentRequest'[i] = 0
        /\ (/\ Len(pcalls'[i]) = Len(pcalls[i]) + 1
            /\ \A k \in 1..Len(pcalls[i]) : pcalls[i][k].pc = "done")
              => aborted'[i] = aborted[i]]_vars

\* The calls of a requester that are started, not completed, and whose
\* signal is not aborted.
ActiveCalls(i) ==
    {k \in 1..Len(pcalls[i]) : pcalls[i][k].pc # "done" /\ ~aborted[i]}

\* C13: a requester has at most one active call.
C13_AtMostOneActive ==
    \A i \in PInsts : Cardinality(ActiveCalls(i)) <= 1

\* get_one runs two calls, both cancelled, while get_two runs its one
\* active call.
C13_Witness ==
    /\ Cardinality({k \in 1..Len(pcalls["get_one"]) :
                       pcalls["get_one"][k].pc # "done"}) = 2
    /\ ActiveCalls("get_one") = {}
    /\ Cardinality(ActiveCalls("get_two")) = 1

----------------------------------------------------------------------------
\* The calls of a controlled requester whose unit of work is in flight.
InFlightCalls(g) == {n \in 1..Len(gcalls[g]) : gcalls[g][n].pc # "done"}

\* C14: in the first form the flag is tested and cleared in one step, so a
\* requester never has two units of work in flight.
C14_SingleFlight ==
    \A g \in AutoGates : Cardinality(InFlightCalls(g)) <= 1

\* A call in flight that was admitted after an earlier call had completed
\* and set the flag back, with a later call dropped behind it.
C14_Witness ==
    \E g \in AutoGates :
        /\ Len(gcalls[g]) = 3
        /\ gcalls[g][1].outcome = OwnOutput(gcalls[g][1])
        /\ gcalls[g][2].started /\ gcalls[g][2].pc # "done"
        /\ Suppressed(gcalls[g][3])

\* C15: in the second form, a call that arrives after allowMoreRequests was
\* called while an admitted call is still in flight is admitted, and two
\* units of work are then in flight.
C15_ReleaseAdmitsSecond ==
    [][\A g \in ManualGates :
        (NewCall(g) /\ released[g] /\ InFlight(g))
            => /\ Admitted(Last(gcalls'[g]))
               /\ Cardinality({n \in 1..Len(gcalls'[g]) :
                                  gcalls'[g][n].pc # "done"}) >= 2]_vars

\* Two units of work of one requester in flight.
C15_Witness ==
    \E g \in ManualGates : Cardinality(InFlightCalls(g)) >= 2

\* A step of allowMoreRequests on requester g that changes something: the
\* only step that changes what g holds and leaves its calls alone.
ReleaseStep(g) == GState(g)' # GState(g) /\ gcalls'[g] = gcalls[g]

\* C16: allowMoreRequests is idempotent: on a requester that allows
\* requests it leaves the flag as it is, and after it a second
\* allowMoreRequests would leave the flag as the first left it.
C16_ReleaseIdempotent ==
    [][\A g \in ManualGates :
        ReleaseStep(g)
            => /\ allowRequests[g] => allowRequests'[g] = allowRequests[g]
               /\ ReleasedFlag(allowRequests'[g]) = allowRequests'[g]]_vars

\* allowMoreRequests was called on a requester that had admitted a call and
\* no call was admitted since.
C16_Witness ==
    \E g \in ManualGates :
        /\ released[g]
        /\ allowRequests[g]
        /\ \E n \in 1..Len(gcalls[g]) : gcalls[g][n].started

\* C17: a call that is dropped changes nothing else: the flag stays false,
\* the calls made before (in flight or completed) are as they were, and no
\* unit of work is started.
C17_SuppressedChangesNothing ==
    [][\A g \in GInsts :
        (NewCall(g) /\ ~allowRequests[g])
            => /\ Suppressed(Last(gcalls'[g]))
               /\ ~allowRequests'[g]
               /\ released'[g] = released[g]
               /\ \A n \in 1..Len(gcalls[g]) : gcalls'[g][n] = gcalls[g][n]]_vars

\* A call dropped by a requester of the second form after the admitted call
\* completed, the flag still false.
C17_Witness ==
    \E g \in ManualGates :
        /\ Len(gcalls[g]) >= 2
        /\ ~InFlight(g)
        /\ gcalls[g][1].outcome = OwnOutput(gcalls[g][1])
        /\ Suppressed(Last(gcalls[g]))
        /\ ~allowRequests[g]

----------------------------------------------------------------------------
\* The scroll handler of the second form:
\*   getFromDatabase(...).then(appendToDom).then(allowMoreRequests)
\* The reactions of a promise run as microtasks, before any other event, so
\* they belong to the step that settles the promise.  A rejected promise
\* skips both reactions.

\* A scroll event past the threshold: the requester is called; when it
\* returns false its promise is already resolved, so appendToDom(false) and
\* allowMoreRequests follow at once.
scrollHandler(g, url) ==
    /\ example = "scrollHandler"
    /\ g \in ManualGates
    /\ TotalCalls < MaxCalls
    /\ IF allowRequests[g]
       THEN /\ allowRequests' = [allowRequests EXCEPT ![g] = AdmittedFlag(@)]
            /\ released' = [released EXCEPT ![g] = FALSE]
            /\ gcalls' = [gcalls EXCEPT ![g] = Append(@,
                  [pc |-> "fetch", fullUrl |-> url, started |-> TRUE,
                   outcome |-> Pending])]
       ELSE /\ gcalls' = [gcalls EXCEPT ![g] = Append(@,
                  [pc |-> "done", fullUrl |-> url, started |-> FALSE,
                   outcome |-> Resolved(JsFalse)])]
            /\ allowRequests' = [allowRequests EXCEPT ![g] =
                  ReleasedFlag(SuppressedFlag(@))]
            /\ released' = [released EXCEPT ![g] = TRUE]
    /\ UNCHANGED <<example, signalSupported, pvars>>

\* response.json() settles under the scroll handler: with a result the
\* promise resolves and appendToDom and allowMoreRequests follow; with a
\* SyntaxError the promise rejects and the chain is skipped.
scrollJsonSettled(g, k) ==
    /\ example = "scrollHandler"
    /\ k \in 1..Len(gcalls[g])
    /\ gcalls[g][k].pc = "json"
    /\ IF IsJson(Server(gcalls[g][k].fullUrl))
       THEN /\ gcalls' = [gcalls EXCEPT ![g][k] =
                  [@ EXCEPT !.pc = "done",
                            !.outcome = Resolved(JsonParse(Server(gcalls[g][k].fullUrl)))]]
            /\ allowRequests' = [allowRequests EXCEPT ![g] =
                  ReleasedFlag(FlagAfterResult(g, @))]
            /\ released' = [released EXCEPT ![g] = TRUE]
       ELSE /\ gcalls' = [gcalls EXCEPT ![g][k] =
                  [@ EXCEPT !.pc = "done", !.outcome = Rejected("SyntaxError")]]
            /\ UNCHANGED <<allowRequests, released>>
    /\ UNCHANGED <<example, signalSupported, pvars>>

InitScroll ==
    /\ example = "scrollHandler"
    /\ signalSupported = TRUE
    /\ currentRequest = [i \in PInsts |-> 0]
    /\ aborted = [i \in PInsts |-> FALSE]
    /\ pcalls = [i \in PInsts |-> <<>>]
    /\ allowRequests = [g \in GInsts |-> TRUE]
    /\ released = [g \in GInsts |-> FALSE]
    /\ gcalls = [g \in GInsts |-> <<>>]

\* A rejected fetch skips the chain too, so the step is that of the
\* requester alone.
NextScroll ==
    \/ \E g \in ManualGates, url \in Urls : scrollHandler(g, url)
    \/ \E g \in ManualGates, k \in 1..MaxCalls : gateFetchSettled(g, k)
    \/ \E g \in ManualGates, k \in 1..MaxCalls : scrollJsonSettled(g, k)

SpecScroll == InitScroll /\ [][NextScroll]_vars

\* C18: under the scroll handler every admitted call is followed by
\* allowMoreRequests, whether its unit of work succeeded or failed: once a
\* requester has admitted a call and nothing of it is pending any more,
\* allowMoreRequests has been called since the admission and the requester
\* allows requests.
C18_AdmittedIsReleased ==
    \A g \in ManualGates :
        ((\E n \in 1..Len(gcalls[g]) : gcalls[g][n].started) /\ ~InFlight(g))
            => (released[g] /\ allowRequests[g])

====
